---- MODULE Spec2Model ----
(***************************************************************************)
(* Model of rustego's StegoImage (src/src/stego_image.rs): LSB             *)
(* steganography over an RGBA8 pixel buffer.  A pixel is a 4-tuple of      *)
(* bytes, a u64 is four 16-bit limbs (least significant first) because     *)
(* the model checker's integers are 32 bits wide.                          *)
(***************************************************************************)
EXTENDS Integers, Naturals, Sequences, FiniteSets, TLC

(* ---------------------------- bounds ---------------------------------- *)
MaxWidth == 2
MaxPixels == 18
MaxPayloadLen == 2
MaxOps == 3

\* image dimensions from one pixel short of the header up to MaxPixels
Dims == {d \in (1..MaxWidth) \X (1..MaxPixels) :
           d[1] * d[2] >= 15 /\ d[1] * d[2] <= MaxPixels}
\* the byte streams standard input delivers; a payload is a prefix of one
PayloadStreams == {<<27, 228, 65, 255>>, <<228, 0, 66, 27>>}

\* what the decoded image holds: all channels 0, or a spread of values
Fills == {"zero", "mixed"}

(* ------------------------ program constants --------------------------- *)
SIZE_OF_USIZE == 8
SIZE_OF_U64 == 8
HEADER_SIZE == SIZE_OF_USIZE + SIZE_OF_U64
CHANNELS == 4

(* ------------------------- 64-bit arithmetic -------------------------- *)
Pow2(n) == 2 ^ n

NibXor == [a \in 0..15 |-> [b \in 0..15 |->
             ((a + b) % 2)
           + 2 * (((a \div 2) + (b \div 2)) % 2)
           + 4 * (((a \div 4) + (b \div 4)) % 2)
           + 8 * (((a \div 8) + (b \div 8)) % 2)]]

\* bitwise exclusive or of two 16-bit limbs
LimbXor(a, b) ==
    NibXor[a % 16][b % 16]
  + 16 * NibXor[(a \div 16) % 16][(b \div 16) % 16]
  + 256 * NibXor[(a \div 256) % 16][(b \div 256) % 16]
  + 4096 * NibXor[a \div 4096][b \div 4096]

\* u64 ^ u64
U64Xor(x, y) == <<LimbXor(x[1], y[1]), LimbXor(x[2], y[2]),
                  LimbXor(x[3], y[3]), LimbXor(x[4], y[4])>>

\* u64::wrapping_add
U64Add(x, y) ==
    LET s1 == x[1] + y[1]
        s2 == x[2] + y[2] + (s1 \div 65536)
        s3 == x[3] + y[3] + (s2 \div 65536)
        s4 == x[4] + y[4] + (s3 \div 65536)
    IN  <<s1 % 65536, s2 % 65536, s3 % 65536, s4 % 65536>>

\* u64::rotate_left
U64Rotl(x, n) ==
    LET q == n \div 16
        s == n % 16
        limb(i) == x[((i - 1 - q + 8) % 4) + 1]
        out(i) == ((limb(i) * Pow2(s)) % 65536) + (limb(i - 1) \div Pow2(16 - s))
    IN  <<out(1), out(2), out(3), out(4)>>

\* u64::to_le_bytes
U64ToLeBytes(x) == <<x[1] % 256, x[1] \div 256, x[2] % 256, x[2] \div 256,
                     x[3] % 256, x[3] \div 256, x[4] % 256, x[4] \div 256>>

\* u64::from_le_bytes / usize::from_le_bytes
U64FromLeBytes(b) == <<b[1] + 256 * b[2], b[3] + 256 * b[4],
                       b[5] + 256 * b[6], b[7] + 256 * b[8]>>

\* a small non-negative integer as a usize
UsizeOf(n) == <<n % 65536, n \div 65536, 0, 0>>

\* usize > usize, most significant limb first
U64Gt(x, y) ==
    \E i \in 1..4 : x[i] > y[i] /\ \A j \in (i + 1)..4 : x[j] = y[j]

\* the integer value of a usize known to fit the model's integers
UsizeToInt(x) == x[1] + 65536 * x[2]

(* --------------- DefaultHasher: SipHash-1-3, zero keys ---------------- *)
\* F applied to the value of x, with x evaluated once
Bind(x, F(_)) == CHOOSE y \in {F(v) : v \in {x}} : TRUE

\* v0 += v1; v1 <<<= 13; v2 += v3; v3 <<<= 16
SipStep1(v) == <<U64Add(v[1], v[2]), U64Rotl(v[2], 13), U64Add(v[3], v[4]), U64Rotl(v[4], 16)>>

\* v1 ^= v0; v0 <<<= 32; v3 ^= v2
SipStep2(v) == <<U64Rotl(v[1], 32), U64Xor(v[2], v[1]), v[3], U64Xor(v[4], v[3])>>

\* v0 += v3; v3 <<<= 21; v2 += v1; v1 <<<= 17
SipStep3(v) == <<U64Add(v[1], v[4]), U64Rotl(v[2], 17), U64Add(v[3], v[2]), U64Rotl(v[4], 21)>>

\* v3 ^= v0; v1 ^= v2; v2 <<<= 32
SipStep4(v) == <<v[1], U64Xor(v[2], v[3]), U64Rotl(v[3], 32), U64Xor(v[4], v[1])>>

\* one SipRound over the state <<v0, v1, v2, v3>>
SipRound(v) == Bind(Bind(Bind(Bind(v, SipStep1), SipStep2), SipStep3), SipStep4)

\* v3 ^= m; one compression round; v0 ^= m
SipCompress(v, m) ==
    Bind(SipRound(<<v[1], v[2], v[3], U64Xor(v[4], m)>>),
         LAMBDA r : <<U64Xor(r[1], m), r[2], r[3], r[4]>>)

\* DefaultHasher::new(): k0 = k1 = 0
SipInit == << <<25973, 28787, 28005, 29551>>,
              <<28525, 28260, 29281, 25711>>,
              <<29281, 28261, 26469, 27769>>,
              <<25971, 31092, 25698, 29797>> >>

RECURSIVE SipBlocks(_, _, _)
\* Hasher::write over the whole byte stream: every full 8-byte block from pos on
SipBlocks(v, data, pos) ==
    IF pos + 7 > Len(data) THEN v
    ELSE Bind(SipCompress(v, U64FromLeBytes(SubSeq(data, pos, pos + 7))),
              LAMBDA w : SipBlocks(w, data, pos + 8))

\* v2 ^= 0xff; three finalisation rounds; v0 ^ v1 ^ v2 ^ v3
SipFinalize(w) ==
    Bind(SipRound(SipRound(SipRound(
             <<w[1], w[2], U64Xor(w[3], <<255, 0, 0, 0>>), w[4]>>))),
         LAMBDA f : U64Xor(U64Xor(f[1], f[2]), U64Xor(f[3], f[4])))

\* Hasher::finish: the tail block carries the length in its top byte
SipFinish(v, tail, length) ==
    LET pad(i) == IF i <= Len(tail) THEN tail[i] ELSE 0
        padded == <<pad(1), pad(2), pad(3), pad(4), pad(5), pad(6), pad(7),
                    length % 256>>
    IN  Bind(SipCompress(v, U64FromLeBytes(padded)), SipFinalize)

\* StegoImage::calculate_hash
calculate_hash(data) ==
    Bind(data, LAMBDA d :
        Bind(SipBlocks(SipInit, d, 1),
             LAMBDA v : SipFinish(v, SubSeq(d, Len(d) - (Len(d) % 8) + 1, Len(d)), Len(d))))

(* ------------------------------ state --------------------------------- *)
VARIABLES width, height, img, hist

vars == <<width, height, img, hist>>

\* the first n bytes of a stream, the stream repeating when it runs out
Prefix(stream, n) == [j \in 1..n |-> stream[((j - 1) % Len(stream)) + 1]]

\* Vec<u8> payloads handed to insert_data: read_to_end of standard input
Payloads == {Prefix(stream, n) : stream \in PayloadStreams, n \in 0..MaxPayloadLen}

\* channel i (0-based) of pixel k (0-based) of a decoded image
FillChannel(f, k, i) ==
    IF f = "zero" THEN 0 ELSE ((k * CHANNELS + i) * 73 + 29) % 256

\* StegoImage::open: the decoded RGBA8 buffer, row-major, one tuple per pixel
Decoded(f, w, h) ==
    [k \in 1..(w * h) |-> <<FillChannel(f, k - 1, 0), FillChannel(f, k - 1, 1),
                            FillChannel(f, k - 1, 2), FillChannel(f, k - 1, 3)>>]

(* ------------------------- StegoImage methods ------------------------- *)
\* usize::checked_sub: Some(a - b) as <<a - b>>, None as <<>>
checked_sub(a, b) == IF a >= b THEN <<a - b>> ELSE <<>>

\* Option::unwrap_or_default
unwrap_or_default(o) == IF o = <<>> THEN 0 ELSE o[1]

\* avaliable with a plain subtraction in place of checked_sub
avaliable_plain_sub(w, h) == w * h - HEADER_SIZE

\* StegoImage::avaliable
avaliable(w, h) == unwrap_or_default(checked_sub(w * h, HEADER_SIZE))

\* WriteChannel shifting by i in place of i << 1
WriteChannel_shift_i(channel, data, i) ==
    (channel \div 4) * 4 + ((data \div Pow2(i)) % 4)

\* WriteChannel adding the two bits without clearing the old ones first
WriteChannel_add(channel, data, i) ==
    (channel \div 4) * 4 + (((channel % 4) + ((data \div Pow2(2 * i)) % 4)) % 4)

\* *channel &= !0x3; *channel |= *data >> (i << 1) & 0x3;   (i is 0-based)
WriteChannel(channel, data, i) ==
    (channel \div 4) * 4 + ((data \div Pow2(2 * i)) % 4)

\* the inner loop of insert_data over the four channels of one pixel
WritePixel(pixel, data) ==
    <<WriteChannel(pixel[1], data, 0), WriteChannel(pixel[2], data, 1),
      WriteChannel(pixel[3], data, 2), WriteChannel(pixel[4], data, 3)>>

\* Envelope with the checksum chained before the length
Envelope_hash_first(data) ==
    U64ToLeBytes(calculate_hash(data)) \o U64ToLeBytes(UsizeOf(Len(data))) \o data

\* data_len_bytes.iter().chain(&hash_bytes).chain(data)
Envelope(data) ==
    U64ToLeBytes(UsizeOf(Len(data))) \o U64ToLeBytes(calculate_hash(data)) \o data

\* ZipWrite that goes on past the envelope, writing zero bytes
ZipWrite_past_end(pixels, env) ==
    [k \in 1..Len(pixels) |-> WritePixel(pixels[k], IF k <= Len(env) THEN env[k] ELSE 0)]

\* self.img.chunks_exact_mut(4).zip(data): stops at the shorter of the two
ZipWrite(pixels, env) ==
    [k \in 1..Len(pixels) |-> IF k <= Len(env) THEN WritePixel(pixels[k], env[k])
                              ELSE pixels[k]]

\* insert_data rejecting a payload that fills the capacity exactly
insert_data_le(pixels, w, h, data) ==
    IF Len(data) = 0 THEN [res |-> "NothingToInsert", img |-> pixels]
    ELSE IF avaliable(w, h) <= Len(data) THEN [res |-> "NotEnoughSpace", img |-> pixels]
    ELSE [res |-> "Ok", img |-> ZipWrite(pixels, Envelope(data))]

\* insert_data checking the capacity only after the write loop
insert_data_write_first(pixels, w, h, data) ==
    IF Len(data) = 0 THEN [res |-> "NothingToInsert", img |-> pixels]
    ELSE IF avaliable(w, h) < Len(data)
         THEN [res |-> "NotEnoughSpace", img |-> ZipWrite(pixels, Envelope(data))]
    ELSE [res |-> "Ok", img |-> ZipWrite(pixels, Envelope(data))]

\* StegoImage::insert_data: the result and the buffer it leaves
insert_data(pixels, w, h, data) ==
    IF Len(data) = 0 THEN [res |-> "NothingToInsert", img |-> pixels]
    ELSE IF avaliable(w, h) < Len(data) THEN [res |-> "NotEnoughSpace", img |-> pixels]
    ELSE [res |-> "Ok", img |-> ZipWrite(pixels, Envelope(data))]

\* byte |= (channel & 0x3) << (j << 1), over the four channels of one pixel
ReadPixel(pixel) ==
    (pixel[1] % 4) + 4 * (pixel[2] % 4) + 16 * (pixel[3] % 4) + 64 * (pixel[4] % 4)

\* channels.skip(skip).take(n) decoded into a zero-initialised array of n bytes
ReadBytes(pixels, skip, n) ==
    [i \in 1..n |-> IF skip + i <= Len(pixels) THEN ReadPixel(pixels[skip + i]) ELSE 0]

\* extract_size rejecting a length equal to the capacity
extract_size_ge(pixels, w, h) ==
    LET extracted_size == U64FromLeBytes(ReadBytes(pixels, 0, SIZE_OF_USIZE))
    IN  IF \/ U64Gt(extracted_size, UsizeOf(avaliable(w, h)))
           \/ extracted_size = UsizeOf(avaliable(w, h))
        THEN [res |-> "InvalidDataLength", val |-> 0]
        ELSE [res |-> "Ok", val |-> UsizeToInt(extracted_size)]

\* StegoImage::extract_size
extract_size(pixels, w, h) ==
    LET extracted_size == U64FromLeBytes(ReadBytes(pixels, 0, SIZE_OF_USIZE))
    IN  IF U64Gt(extracted_size, UsizeOf(avaliable(w, h)))
        THEN [res |-> "InvalidDataLength", val |-> 0]
        ELSE [res |-> "Ok", val |-> UsizeToInt(extracted_size)]

\* StegoImage::extract_hash
extract_hash(pixels) ==
    [res |-> "Ok", val |-> U64FromLeBytes(ReadBytes(pixels, SIZE_OF_USIZE, SIZE_OF_U64))]

\* extract_data returning the bytes without comparing the hash
extract_data_unchecked(pixels, w, h) ==
    IF Len(pixels) < HEADER_SIZE THEN [res |-> "TooSmallImage", data |-> <<>>]
    ELSE LET size == extract_size(pixels, w, h)
         IN  IF size.res # "Ok" THEN [res |-> size.res, data |-> <<>>]
             ELSE [res |-> "Ok", data |-> ReadBytes(pixels, HEADER_SIZE, size.val)]

\* StegoImage::extract_data
extract_data(pixels, w, h) ==
    IF Len(pixels) < HEADER_SIZE THEN [res |-> "TooSmallImage", data |-> <<>>]
    ELSE LET size == extract_size(pixels, w, h)
             hash == extract_hash(pixels)
             data == ReadBytes(pixels, HEADER_SIZE, size.val)
         IN  IF size.res # "Ok" THEN [res |-> size.res, data |-> <<>>]
             ELSE IF calculate_hash(data) # hash.val
                  THEN [res |-> "InvalidHashCheck", data |-> <<>>]
                  ELSE [res |-> "Ok", data |-> data]

(* ------------------------------ actions ------------------------------- *)
\* one finished call: the method, its argument, what it returned and the
\* buffer before and after it
Call(op, data, pos, res, out, pre, post) ==
    [op |-> op, data |-> data, pos |-> pos, res |-> res, out |-> out,
     pre |-> pre, post |-> post]

Init ==
    /\ \E d \in Dims : width = d[1] /\ height = d[2]
    /\ \E f \in Fills : img = Decoded(f, width, height)
    /\ hist = <<>>

\* main.rs embed mode: img.insert_data(&data)
InsertData ==
    /\ Len(hist) < MaxOps
    /\ \E data \in Payloads :
         \E r \in {insert_data(img, width, height, data)} :
             /\ img' = r.img
             /\ hist' = Append(hist, Call("insert_data", data, <<>>, r.res, <<>>, img, r.img))
    /\ UNCHANGED <<width, height>>

\* ExtractData that clears the carrier bits of the pixels it has read
ExtractData_consuming ==
    /\ Len(hist) < MaxOps
    /\ \E r \in {extract_data(img, width, height)} :
         /\ img' = IF r.res = "Ok" THEN ZipWrite(img, [k \in 1..HEADER_SIZE |-> 0]) ELSE img
         /\ hist' = Append(hist, Call("extract_data", <<>>, <<>>, r.res, r.data, img, img'))
    /\ UNCHANGED <<width, height>>

\* main.rs extraction mode: img.extract_data()
ExtractData ==
    /\ Len(hist) < MaxOps
    /\ \E r \in {extract_data(img, width, height)} :
         hist' = Append(hist, Call("extract_data", <<>>, <<>>, r.res, r.data, img, img))
    /\ UNCHANGED <<width, height, img>>

\* img.avaliable()
Avaliable ==
    /\ Len(hist) < MaxOps
    /\ hist' = Append(hist, Call("avaliable", <<>>, <<>>, "Ok",
                                 <<avaliable(width, height)>>, img, img))
    /\ UNCHANGED <<width, height, img>>

\* the value of a channel with bit b flipped
FlipBit(channel, b) ==
    IF (channel \div Pow2(b)) % 2 = 1 THEN channel - Pow2(b) ELSE channel + Pow2(b)

\* Environment: a stored image that insert_data has just written comes back
\* with one carrier bit of one channel of one payload pixel flipped
Tamper ==
    /\ Len(hist) < MaxOps
    /\ Len(hist) > 0
    /\ hist[Len(hist)].op = "insert_data"
    /\ hist[Len(hist)].res = "Ok"
    /\ \E k \in (HEADER_SIZE + 1)..(HEADER_SIZE + Len(hist[Len(hist)].data)),
          i \in 1..CHANNELS, b \in 0..1 :
         /\ img' = [img EXCEPT ![k][i] = FlipBit(@, b)]
         /\ hist' = Append(hist, Call("tamper", <<>>, <<k - 1, i - 1, b>>, "Ok", <<>>, img, img'))
    /\ UNCHANGED <<width, height>>

Next == InsertData \/ ExtractData \/ Avaliable \/ Tamper

Spec == Init /\ [][Next]_vars

TypeOK ==
    /\ <<width, height>> \in Dims
    /\ Len(img) = width * height
    /\ \A k \in 1..Len(img) : \A i \in 1..CHANNELS : img[k][i] \in 0..255
    /\ Len(hist) <= MaxOps

(* ------------------- vocabulary of the properties --------------------- *)
Calls == 1..Len(hist)

IsCall(n, op) == n \in Calls /\ hist[n].op = op

\* capacity in bytes of the image under test
Capacity == IF width * height >= 16 THEN width * height - 16 ELSE 0

\* bit b of the byte x
Bit(x, b) == (x \div Pow2(b)) % 2

\* the byte whose bit b is carrier bit (b mod 2) of channel (b div 2) of the pixel
CarriedByte(pixel) ==
      Bit(pixel[1], 0) + 2 * Bit(pixel[1], 1) + 4 * Bit(pixel[2], 0) + 8 * Bit(pixel[2], 1)
    + 16 * Bit(pixel[3], 0) + 32 * Bit(pixel[3], 1) + 64 * Bit(pixel[4], 0)
    + 128 * Bit(pixel[4], 1)

\* the n bytes carried by the pixels from 0-based index from on
Carried(pixels, from, n) == [j \in 1..n |-> CarriedByte(pixels[from + j])]

\* pixel k (1-based) has a set carrier bit
HasLowBits(pixels, k) == \E i \in 1..CHANNELS : pixels[k][i] % 4 # 0

(* ---------------------------------------------------------------------- *)
(* C1  Round trip: a non-empty payload that fits is accepted by           *)
(* insert_data, and an extract_data that follows returns Ok with exactly  *)
(* those bytes.                                                           *)
(* ---------------------------------------------------------------------- *)
RoundTrip ==
    \A n \in Calls :
        (/\ hist[n].op = "insert_data"
         /\ Len(hist[n].data) >= 1
         /\ Len(hist[n].data) <= Capacity)
        => /\ hist[n].res = "Ok"
           /\ IsCall(n + 1, "extract_data")
              => /\ hist[n + 1].res = "Ok"
                 /\ Len(hist[n + 1].out) = Len(hist[n].data)
                 /\ hist[n + 1].out = hist[n].data

RoundTripWitness ==
    \E n \in Calls :
        /\ hist[n].op = "insert_data"
        /\ Len(hist[n].data) = 2
        /\ HasLowBits(hist[n].pre, 1)
        /\ IsCall(n + 1, "extract_data")
        /\ hist[n + 1].res = "Ok"
        /\ hist[n + 1].out = hist[n].data

(* ---------------------------------------------------------------------- *)
(* C2  The outcome of insert_data depends only on the payload length and  *)
(* the capacity: NothingToInsert for an empty payload, NotEnoughSpace for *)
(* a non-empty payload longer than the capacity, Ok otherwise.            *)
(* ---------------------------------------------------------------------- *)
InsertOutcome ==
    \A n \in Calls :
        hist[n].op = "insert_data"
        => hist[n].res = IF Len(hist[n].data) = 0 THEN "NothingToInsert"
                         ELSE IF Len(hist[n].data) > Capacity THEN "NotEnoughSpace"
                         ELSE "Ok"

InsertOutcomeWitness ==
    /\ Capacity = 1
    /\ \E a, b, c \in Calls :
        /\ hist[a].op = "insert_data" /\ hist[a].res = "NothingToInsert"
        /\ hist[b].op = "insert_data" /\ hist[b].res = "NotEnoughSpace"
        /\ hist[c].op = "insert_data" /\ hist[c].res = "Ok"

(* ---------------------------------------------------------------------- *)
(* C3  No partial success: an insert_data that returns an error leaves    *)
(* every channel of every pixel as it was.                                *)
(* ---------------------------------------------------------------------- *)
NoPartialEmbed ==
    \A n \in Calls :
        (hist[n].op = "insert_data" /\ hist[n].res # "Ok") => hist[n].post = hist[n].pre

NoPartialEmbedWitness ==
    \E n \in Calls :
        /\ hist[n].op = "insert_data"
        /\ hist[n].res = "NotEnoughSpace"
        /\ Capacity >= 1
        /\ HasLowBits(hist[n].pre, 1)
        /\ hist[n].post = hist[n].pre

(* ---------------------------------------------------------------------- *)
(* C4  Frame of a successful insert_data: the upper six bits of every     *)
(* channel are unchanged, and every pixel from index HEADER_SIZE + len on *)
(* is unchanged in all its bits.                                          *)
(* ---------------------------------------------------------------------- *)
EmbedFrame ==
    \A n \in Calls :
        (hist[n].op = "insert_data" /\ hist[n].res = "Ok")
        => /\ Len(hist[n].post) = Len(hist[n].pre)
           /\ \A k \in 1..Len(hist[n].pre) :
                /\ \A i \in 1..4 : hist[n].post[k][i] \div 4 = hist[n].pre[k][i] \div 4
                /\ k > 16 + Len(hist[n].data) => hist[n].post[k] = hist[n].pre[k]

EmbedFrameWitness ==
    \E n \in Calls :
        /\ hist[n].op = "insert_data" /\ hist[n].res = "Ok"
        /\ Len(hist[n].data) = 1
        /\ Len(hist[n].pre) = 18
        /\ HasLowBits(hist[n].pre, 18)
        /\ hist[n].pre[1][1] \div 4 # 0
        /\ hist[n].post # hist[n].pre

(* ---------------------------------------------------------------------- *)
(* C5  Corruption detection: after a successful insert_data, flipping one *)
(* carrier bit of a payload pixel makes a following extract_data return   *)
(* InvalidHashCheck, unless the altered payload hashes like the original. *)
(* ---------------------------------------------------------------------- *)
CorruptionDetected ==
    \A n \in Calls :
        (/\ hist[n].op = "insert_data" /\ hist[n].res = "Ok"
         /\ IsCall(n + 1, "tamper")
         /\ hist[n + 1].pos[1] >= 16 /\ hist[n + 1].pos[1] < 16 + Len(hist[n].data)
         /\ IsCall(n + 2, "extract_data"))
        => \/ hist[n + 2].res = "InvalidHashCheck"
           \/ calculate_hash(Carried(hist[n + 2].pre, 16, Len(hist[n].data)))
                = calculate_hash(hist[n].data)

CorruptionDetectedWitness ==
    \E n \in Calls :
        /\ hist[n].op = "insert_data" /\ hist[n].res = "Ok"
        /\ IsCall(n + 1, "tamper")
        /\ hist[n + 1].pos[1] = 17
        /\ hist[n + 1].post # hist[n + 1].pre
        /\ IsCall(n + 2, "extract_data")
        /\ hist[n + 2].res = "InvalidHashCheck"
        /\ Carried(hist[n + 2].pre, 16, 2) # hist[n].data

(* ---------------------------------------------------------------------- *)
(* C6  extract_data checks in the order size, length, hash: TooSmallImage *)
(* iff there are fewer than HEADER_SIZE pixels; otherwise                 *)
(* InvalidDataLength iff the little-endian length carried by pixels 0..7  *)
(* exceeds the capacity; otherwise InvalidHashCheck iff the hash of the   *)
(* carried payload differs from the checksum carried by pixels 8..15;     *)
(* otherwise Ok with exactly `length` bytes.  Stated of the call just     *)
(* made: every earlier call was the latest one in an earlier state.       *)
(* ---------------------------------------------------------------------- *)
\* the length bytes denote a number above cap (cap is below 256 here)
LengthExceeds(bytes, cap) == bytes[1] > cap \/ \E j \in 2..8 : bytes[j] # 0

ExpectedExtract(pixels) ==
    IF Len(pixels) < 16 THEN [res |-> "TooSmallImage", data |-> <<>>]
    ELSE IF LengthExceeds(Carried(pixels, 0, 8), Capacity)
         THEN [res |-> "InvalidDataLength", data |-> <<>>]
    ELSE IF U64ToLeBytes(calculate_hash(Carried(pixels, 16, CarriedByte(pixels[1]))))
              # Carried(pixels, 8, 8)
         THEN [res |-> "InvalidHashCheck", data |-> <<>>]
    ELSE [res |-> "Ok", data |-> Carried(pixels, 16, CarriedByte(pixels[1]))]

ExtractGates ==
    \A n \in Calls :
        (n = Len(hist) /\ hist[n].op = "extract_data")
        => \A expected \in {ExpectedExtract(hist[n].pre)} :
              /\ hist[n].res = expected.res
              /\ hist[n].out = expected.data
              /\ hist[n].res = "Ok" => Len(hist[n].out) = CarriedByte(hist[n].pre[1])

ExtractGatesWitness ==
    \E a, b \in Calls :
        /\ hist[a].op = "extract_data" /\ hist[a].res = "InvalidDataLength"
        /\ hist[b].op = "extract_data" /\ hist[b].res = "Ok"
        /\ Len(hist[b].out) >= 1

(* ---------------------------------------------------------------------- *)
(* C7  extract_data never changes the buffer, whatever it returns, and    *)
(* two consecutive extract_data calls return the same result.             *)
(* ---------------------------------------------------------------------- *)
ExtractPure ==
    \A n \in Calls :
        hist[n].op = "extract_data"
        => /\ hist[n].post = hist[n].pre
           /\ IsCall(n + 1, "extract_data")
              => /\ hist[n + 1].pre = hist[n].pre
                 /\ hist[n + 1].res = hist[n].res
                 /\ hist[n + 1].out = hist[n].out

ExtractPureWitness ==
    \E n \in Calls :
        /\ hist[n].op = "extract_data" /\ hist[n].res = "Ok"
        /\ Len(hist[n].out) >= 1
        /\ IsCall(n + 1, "extract_data")
        /\ hist[n + 1].out = hist[n].out

(* ---------------------------------------------------------------------- *)
(* C8  avaliable is width * height - 16 when width * height >= 16 and 0   *)
(* otherwise: never negative, a function of the dimensions alone (84 for  *)
(* a 10 x 10 image), and it leaves the buffer alone.                      *)
(* ---------------------------------------------------------------------- *)
CapacityFormula ==
    /\ HEADER_SIZE = 16 /\ SIZE_OF_USIZE = 8 /\ SIZE_OF_U64 = 8
    /\ avaliable(10, 10) = 84
    /\ \A n \in Calls :
         hist[n].op = "avaliable"
         => /\ hist[n].res = "Ok"
            /\ hist[n].out = <<Capacity>>
            /\ hist[n].out[1] >= 0
            /\ hist[n].post = hist[n].pre

CapacityFormulaWitness ==
    \E n \in Calls :
        /\ hist[n].op = "avaliable"
        /\ width > 1 /\ height > 1
        /\ hist[n].out = <<2>>
        /\ IsCall(n - 1, "insert_data") /\ hist[n - 1].res = "Ok"

(* ---------------------------------------------------------------------- *)
(* C9  Envelope layout: after a successful insert_data, carrier bits      *)
(* [2i, 2i+1] of envelope byte k sit in channel i of pixel k, and the     *)
(* envelope is the 8-byte little-endian length, the 8-byte little-endian  *)
(* hash of the payload, then the payload.  Stated of the call just made.  *)
(* ---------------------------------------------------------------------- *)
EnvelopeLayout ==
    \A n \in Calls :
        (n = Len(hist) /\ hist[n].op = "insert_data" /\ hist[n].res = "Ok")
        => \A env \in {<<Len(hist[n].data) % 256, Len(hist[n].data) \div 256, 0, 0, 0, 0, 0, 0>>
                        \o U64ToLeBytes(calculate_hash(hist[n].data)) \o hist[n].data} :
               /\ Len(env) = 16 + Len(hist[n].data)
               /\ \A k \in 1..Len(env) : \A i \in 0..3 :
                    /\ Bit(hist[n].post[k][i + 1], 0) = Bit(env[k], 2 * i)
                    /\ Bit(hist[n].post[k][i + 1], 1) = Bit(env[k], 2 * i + 1)

EnvelopeLayoutWitness ==
    \E n \in Calls :
        /\ hist[n].op = "insert_data" /\ hist[n].res = "Ok"
        /\ hist[n].data = <<27, 228>>
        /\ hist[n].pre[17][1] % 4 # 3
        /\ hist[n].post[17][1] % 4 = 3
        /\ hist[n].post[18][4] % 4 = 3

(* ---------------------------------------------------------------------- *)
(* C10 (as stated)  Embedding the same payload a second time reproduces   *)
(* the result of the first embed only if the carrier bits of the initial  *)
(* buffer outside the envelope region were zero.                          *)
(* ---------------------------------------------------------------------- *)
IdempotentOnlyIfZero ==
    \A n \in Calls :
        (/\ hist[n].op = "insert_data" /\ hist[n].res = "Ok"
         /\ IsCall(n + 1, "insert_data") /\ hist[n + 1].res = "Ok"
         /\ hist[n + 1].data = hist[n].data
         /\ hist[n + 1].post = hist[n].post)
        => \A k \in (16 + Len(hist[n].data) + 1)..Len(hist[n].pre) :
               ~HasLowBits(hist[n].pre, k)

(* ---------------------------------------------------------------------- *)
(* C10 (amended)  Embedding the same payload a second time reproduces the *)
(* result of the first embed, whatever the initial buffer held; embedding *)
(* another payload over it makes a following extract return that payload. *)
(* ---------------------------------------------------------------------- *)
EmbedIdempotent ==
    \A n \in Calls :
        (/\ hist[n].op = "insert_data" /\ hist[n].res = "Ok"
         /\ IsCall(n + 1, "insert_data") /\ hist[n + 1].res = "Ok")
        => /\ hist[n + 1].data = hist[n].data => hist[n + 1].post = hist[n].post
           /\ IsCall(n + 2, "extract_data")
              => hist[n + 2].res = "Ok" /\ hist[n + 2].out = hist[n + 1].data

EmbedIdempotentWitness ==
    \E n \in Calls :
        /\ hist[n].op = "insert_data" /\ hist[n].res = "Ok"
        /\ Len(hist[n].data) = 1
        /\ IsCall(n + 1, "insert_data") /\ hist[n + 1].res = "Ok"
        /\ hist[n + 1].data = hist[n].data
        /\ Len(hist[n].pre) = 18
        /\ HasLowBits(hist[n].pre, 18)
        /\ hist[n].post # hist[n].pre
        /\ hist[n + 1].post = hist[n].post

====
